---- MODULE Spec2Model ----
(***************************************************************************)
(* Model of the public RPC endpoints of a snarkOS node                     *)
(* (src/src/rpc/rpc_impl.rs): the bounded range queries, the block         *)
(* template builder with its mempool filter and difficulty retargeting,    *)
(* and the send_transaction command routed to the prover mailbox.          *)
(***************************************************************************)
EXTENDS Integers, Sequences, FiniteSets, TLC

(***************************************************************************)
(* Bounds of the model.                                                    *)
(***************************************************************************)
\* Largest height the canonical chain grows to (a u32 in the code).
MaxHeight == 3
\* Largest height a caller passes to a range query.
MaxQueryHeight == 4
\* Stand-in for u64::MAX; u128::MAX is scaled with it.
U64_MAX == 3

(***************************************************************************)
(* Program constants.                                                      *)
(***************************************************************************)
\* E::MAXIMUM_BLOCK_REQUEST
MAXIMUM_BLOCK_REQUEST == 3
\* snarkvm::dpc::testnet2::V12_UPGRADE_BLOCK_HEIGHT
V12_UPGRADE_BLOCK_HEIGHT == 2
\* The width of the u128 the cumulative weight is kept in.
U128_MAX == (U64_MAX + 1) * (U64_MAX + 1) - 1

VARIABLES
    network_id,       \* N::NETWORK_ID
    blocks,           \* ledger: the canonical chain, blocks[h + 1] at height h
    serial_numbers,   \* ledger: serial numbers recorded as spent
    commitments,      \* ledger: commitments recorded as outputs
    memory_pool,      \* the transactions of the shared MemoryPool, in its order
    pool_readers,     \* read guards held on the memory pool's RwLock
    range_call,       \* the last get_blocks / get_block_hashes call
    tpl,              \* the locals and position of the get_block_template call
    tpl_result,       \* what get_block_template returned
    tpl_seen,         \* what changed outside the call since it started
    prover_router,    \* the prover's mailbox: a bounded channel
    send_call,        \* the locals and position of the send_transaction call
    send_stats,       \* calls made, inputs decoded, messages the mailbox took
    peers_router,     \* the peer registry's mailbox
    connect_call,     \* the locals and position of the connect call
    peers,            \* the candidate and the connected peers the registry holds
    shares,           \* the operator's share ledger: round -> prover -> shares
    share_call,       \* the last query of the share ledger and its result
    tpl_prev,         \* what the call before returned, while nothing has changed since
    pool_query,       \* the locals and position of the get_memory_pool call
    pool_waiting,     \* a writer is queued for the memory pool's lock
    query             \* the last query that is a single read, and its answer

ledgerVars == <<blocks, serial_numbers, commitments>>
poolVars == <<memory_pool, pool_readers>>
tplVars == <<tpl, tpl_result, tpl_seen, tpl_prev>>
cmdVars == <<prover_router, send_call, send_stats>>
connVars == <<peers_router, connect_call, peers>>
shareVars == <<shares, share_call>>
readVars == <<pool_query, pool_waiting>>
restVars == <<connVars, shareVars, readVars, query>>
rpcVars == <<network_id, ledgerVars, poolVars, range_call, tplVars, cmdVars>>
vars == <<network_id, blocks, serial_numbers, commitments, memory_pool, pool_readers,
          range_call, tpl, tpl_result, tpl_seen, prover_router, send_call, send_stats,
          peers_router, connect_call, peers, shares, share_call, tpl_prev,
          pool_query, pool_waiting, query>>

(***************************************************************************)
(* The ledger reader (crate::LedgerReader), as far as the endpoints use it *)
(***************************************************************************)
Err(e) == [ok |-> FALSE, error |-> e]
Ok(v) == [ok |-> TRUE, value |-> v]

Header(b) == b.header
Hash(b) == <<"hash", b.header>>
GenesisBlock == [header |-> [height |-> 0, difficulty_target |-> U64_MAX],
                 cumulative_weight |-> 0]

LatestBlock == blocks[Len(blocks)]
LatestBlockHeight == Len(blocks) - 1
\* The ledger root commits to the records of the chain up to its tip.
LedgerRootOf(b) == <<"root", b.header>>
LatestLedgerRoot == LedgerRootOf(LatestBlock)

\* get_blocks / get_block_hashes of the ledger: every height of the range
\* must be in the canonical chain.
LedgerGetRange(kind, from, to) ==
    IF \A h \in from..to : h <= LatestBlockHeight
    THEN Ok([h \in 1..(IF to >= from THEN to - from + 1 ELSE 0) |->
                IF kind = "blocks" THEN blocks[from + h] ELSE Hash(blocks[from + h])])
    ELSE Err("ledger")

(***************************************************************************)
(* Bounded range queries                                                   *)
(***************************************************************************)
Max(a, b) == IF a >= b THEN a ELSE b
SaturatingSub(a, b) == IF a >= b THEN a - b ELSE 0

SafeStartHeightOffByOne(start_block_height, end_block_height) ==
    Max(start_block_height, SaturatingSub(end_block_height, MAXIMUM_BLOCK_REQUEST))

SafeStartHeight(start_block_height, end_block_height) ==
    Max(start_block_height, SaturatingSub(end_block_height, MAXIMUM_BLOCK_REQUEST - 1))

RangeQuery(kind, start_block_height, end_block_height) ==
    LET safe_start_height == SafeStartHeight(start_block_height, end_block_height)
    IN  /\ range_call' = [kind |-> kind,
                          start |-> start_block_height,
                          end |-> end_block_height,
                          asked_from |-> safe_start_height,
                          asked_to |-> end_block_height,
                          result |-> LedgerGetRange(kind, safe_start_height, end_block_height)]
        /\ UNCHANGED <<network_id, restVars, cmdVars, ledgerVars, poolVars, tplVars>>

GetBlocks ==
    \E s \in 0..MaxQueryHeight, e \in 0..MaxQueryHeight : RangeQuery("blocks", s, e)

GetBlockHashes ==
    \E s \in 0..MaxQueryHeight, e \in 0..MaxQueryHeight : RangeQuery("hashes", s, e)

(***************************************************************************)
(* Transactions                                                            *)
(***************************************************************************)
Transaction(id, sns, cms, vb) ==
    [transaction_id |-> id, serial_numbers |-> sns, commitments |-> cms,
     value_balance |-> vb]

\* TA and TB spend the same serial number, TB owes a subsidy, and TC creates
\* the commitment TB creates.
TA == Transaction("ta", <<"sn1">>, <<"cm1">>, 2)
TB == Transaction("tb", <<"sn1", "sn2">>, <<"cm2">>, -1)
TC == Transaction("tc", <<"sn3">>, <<"cm2">>, 1)
\* The transactions blocks confirm, and those that reach the memory pool.
TxUniverse == {TA, TB, TC}
PoolTransactions == {TA, TB}

Range(seq) == {seq[i] : i \in DOMAIN seq}
Items(tx) == Range(tx.serial_numbers) \cup Range(tx.commitments)

\* Transaction::to_string and its inverse.
TxToString(tx) == <<"json", tx.transaction_id>>
TxFromString(str) == CHOOSE tx \in TxUniverse : TxToString(tx) = str

RECURSIVE SumValueBalance(_)
SumValueBalance(txs) ==
    IF txs = <<>> THEN 0
    ELSE txs[1].value_balance + SumValueBalance(Tail(txs))

(***************************************************************************)
(* The environment: the ledger accepts blocks, the prover and the peers    *)
(* write to the memory pool.                                               *)
(***************************************************************************)
None == [none |-> TRUE]

\* The difficulty targets of the blocks the ledger accepts.
BlockTargets == {1}

WeightOf(difficulty_target) == U64_MAX \div difficulty_target

\* Notes a change of the ledger or of the pool made while a
\* get_block_template call is under way.
SeenDuringCall(what) ==
    IF tpl.pc = "idle" THEN tpl_seen ELSE [tpl_seen EXCEPT ![what] = TRUE]

AcceptBlock ==
    /\ LatestBlockHeight < MaxHeight
    /\ \E target \in BlockTargets, confirmed \in SUBSET TxUniverse :
        /\ Cardinality(confirmed) <= 1
        /\ \A tx \in confirmed :
            /\ Range(tx.serial_numbers) \cap serial_numbers = {}
            /\ Range(tx.commitments) \cap commitments = {}
        /\ blocks' = Append(blocks,
              [header |-> [height |-> LatestBlockHeight + 1, difficulty_target |-> target],
               cumulative_weight |-> LatestBlock.cumulative_weight + WeightOf(target)])
        /\ serial_numbers' =
              serial_numbers \cup UNION {Range(tx.serial_numbers) : tx \in confirmed}
        /\ commitments' = commitments \cup UNION {Range(tx.commitments) : tx \in confirmed}
    /\ tpl_seen' = SeenDuringCall("ledger_changed")
    /\ tpl_prev' = None
    /\ UNCHANGED <<network_id, restVars, cmdVars, poolVars, range_call, tpl, tpl_result>>

\* A writer holds the RwLock exclusively: no read guard is out.  The
\* writer that was queued, if one was, is the one that writes.
MempoolInsert ==
    /\ pool_readers = 0
    /\ \E tx \in PoolTransactions \ Range(memory_pool) :
        memory_pool' = Append(memory_pool, tx)
    /\ pool_waiting' = FALSE
    /\ tpl_seen' = SeenDuringCall("pool_changed")
    /\ tpl_prev' = None
    /\ UNCHANGED <<network_id, connVars, shareVars, pool_query, query, cmdVars, ledgerVars,
                   pool_readers, range_call, tpl, tpl_result>>

MempoolRemove ==
    /\ pool_readers = 0
    /\ \E i \in DOMAIN memory_pool :
        memory_pool' = SubSeq(memory_pool, 1, i - 1) \o
                       SubSeq(memory_pool, i + 1, Len(memory_pool))
    /\ pool_waiting' = FALSE
    /\ tpl_seen' = SeenDuringCall("pool_changed")
    /\ tpl_prev' = None
    /\ UNCHANGED <<network_id, connVars, shareVars, pool_query, query, cmdVars, ledgerVars,
                   pool_readers, range_call, tpl, tpl_result>>

\* A writer asks for the lock while read guards are out: it is queued, and
\* tokio's RwLock, which is fair, hands out no read guard past it.
MempoolWriteRequest ==
    /\ pool_readers > 0
    /\ ~pool_waiting
    /\ pool_waiting' = TRUE
    /\ UNCHANGED <<rpcVars, query, connVars, shareVars, pool_query>>

(***************************************************************************)
(* get_block_template                                                      *)
(***************************************************************************)
TplIdle ==
    [pc |-> "idle", latest_block |-> None, ledger_root |-> None,
     previous_block_hash |-> None, block_height |-> None, block_timestamp |-> None,
     retarget_header |-> None, difficulty_target |-> None, cumulative_weight |-> None,
     coinbase_reward |-> None, transaction_fees |-> None,
     pool |-> <<>>, next |-> 1, transactions |-> <<>>]

Unchanged == [ledger_changed |-> FALSE, pool_changed |-> FALSE]

\* Block::block_reward: the emission schedule, a function of the height alone.
BlockReward(block_height) == 16 \div (block_height + 1)

\* A lookup of the ledger's storage answers, or fails with a storage error.
ContainsSerialNumber(serial_number, faults) ==
    IF serial_number \in faults THEN Err("storage")
    ELSE Ok(serial_number \in serial_numbers)

ContainsCommitment(commitment, faults) ==
    IF commitment \in faults THEN Err("storage")
    ELSE Ok(commitment \in commitments)

GetBlockHeader(block_height, fault) ==
    IF fault \/ block_height > LatestBlockHeight THEN Err("storage")
    ELSE Ok(Header(blocks[block_height + 1]))

GetBlockTemplate ==
    /\ tpl.pc = "idle"
    /\ tpl' = [TplIdle EXCEPT !.pc = "latest_block"]
    /\ tpl_result' = None
    /\ tpl_seen' = Unchanged
    /\ UNCHANGED <<network_id, restVars, cmdVars, ledgerVars, poolVars, range_call, tpl_prev>>

\* let latest_block = self.ledger.latest_block();
ReadLatestBlock ==
    /\ tpl.pc = "latest_block"
    /\ tpl' = [tpl EXCEPT !.pc = "ledger_root", !.latest_block = LatestBlock]
    /\ UNCHANGED <<network_id, restVars, cmdVars, ledgerVars, poolVars, range_call, tpl_prev, tpl_result, tpl_seen>>

\* let ledger_root = self.ledger.latest_ledger_root();
ReadLedgerRoot ==
    /\ tpl.pc = "ledger_root"
    /\ tpl' = [tpl EXCEPT !.pc = "prepare", !.ledger_root = LatestLedgerRoot]
    /\ UNCHANGED <<network_id, restVars, cmdVars, ledgerVars, poolVars, range_call, tpl_prev, tpl_result, tpl_seen>>

\* What chrono::Utc::now().timestamp() may return.
Timestamps == {"now"}

NextBlockHeightOfTip(latest_block_height) == latest_block_height

NextBlockHeightOfBlockRead(latest_block_height) == tpl.latest_block.header.height + 1

\* self.ledger.latest_block_height() + 1, the ledger read anew.
NextBlockHeight(latest_block_height) == latest_block_height + 1

\* previous_block_hash, block_height and block_timestamp
PrepareBlock ==
    /\ tpl.pc = "prepare"
    /\ \E now \in Timestamps :
        tpl' = [tpl EXCEPT !.pc = "difficulty",
                           !.previous_block_hash = Hash(tpl.latest_block),
                           !.block_height = NextBlockHeight(LatestBlockHeight),
                           !.block_timestamp = now]
    /\ UNCHANGED <<network_id, restVars, cmdVars, ledgerVars, poolVars, range_call, tpl_prev, tpl_result, tpl_seen>>

RetargetBasisStrict(id, block_height) ==
    IF id = 2 /\ block_height < V12_UPGRADE_BLOCK_HEIGHT THEN "latest"
    ELSE IF id = 2 THEN "anchor"
    ELSE "genesis"

RetargetBasisSliding(id, block_height) ==
    IF id = 2 /\ block_height <= V12_UPGRADE_BLOCK_HEIGHT THEN "latest"
    ELSE IF id = 2 THEN "anchor"
    ELSE "latest"

\* Which header the difficulty target is computed from.
RetargetBasis(id, block_height) ==
    IF id = 2 /\ block_height <= V12_UPGRADE_BLOCK_HEIGHT THEN "latest"
    ELSE IF id = 2 THEN "anchor"
    ELSE "genesis"

Min(a, b) == IF a <= b THEN a ELSE b

CumulativeWeightU64(latest_block, difficulty_target) ==
    Min(latest_block.cumulative_weight + (U64_MAX \div difficulty_target), U64_MAX)

\* latest_block.cumulative_weight().saturating_add((u64::MAX / difficulty_target) as u128)
CumulativeWeight(latest_block, difficulty_target) ==
    Min(latest_block.cumulative_weight + (U64_MAX \div difficulty_target), U128_MAX)

\* The difficulty target, the cumulative weight and the coinbase reward
\* before the fees.  Blocks::compute_difficulty_target is a function of the
\* header, the timestamp and the height it is given; any u64 but 0 may come
\* out of it.
ComputeDifficulty ==
    /\ tpl.pc = "difficulty"
    /\ LET basis == RetargetBasis(network_id, tpl.block_height)
       IN  \E fault \in BOOLEAN :
           LET anchor_block_header == GetBlockHeader(V12_UPGRADE_BLOCK_HEIGHT, fault)
           IN  IF basis = "anchor" /\ ~anchor_block_header.ok
               THEN /\ tpl' = [tpl EXCEPT !.pc = "done"]
                    /\ tpl_result' = Err("AnyhowError")
               ELSE /\ \E difficulty_target \in 1..U64_MAX :
                        tpl' = [tpl EXCEPT
                            !.pc = "read_pool",
                            !.retarget_header =
                                IF basis = "latest" THEN Header(tpl.latest_block)
                                ELSE IF basis = "anchor" THEN anchor_block_header.value
                                ELSE Header(GenesisBlock),
                            !.difficulty_target = difficulty_target,
                            !.cumulative_weight =
                                CumulativeWeight(tpl.latest_block, difficulty_target),
                            !.coinbase_reward = BlockReward(tpl.block_height),
                            !.transaction_fees = 0]
                    /\ tpl_result' = tpl_result
    /\ UNCHANGED <<network_id, restVars, cmdVars, ledgerVars, poolVars, range_call, tpl_prev, tpl_seen>>

ReadMemoryPoolGuardDropped ==
    /\ tpl.pc = "read_pool"
    /\ ~pool_waiting
    /\ tpl' = [tpl EXCEPT !.pc = "filter", !.pool = memory_pool, !.next = 1,
                          !.transactions = <<>>]
    /\ UNCHANGED <<network_id, restVars, cmdVars, ledgerVars, poolVars, range_call, tpl_prev,
                   tpl_result, tpl_seen>>

\* self.memory_pool.read().await.transactions()
ReadMemoryPool ==
    /\ tpl.pc = "read_pool"
    /\ ~pool_waiting
    /\ pool_readers' = pool_readers + 1
    /\ tpl' = [tpl EXCEPT !.pc = "filter", !.pool = memory_pool, !.next = 1,
                          !.transactions = <<>>]
    /\ UNCHANGED <<network_id, restVars, cmdVars, ledgerVars, memory_pool, range_call, tpl_prev, tpl_result, tpl_seen>>

AdmittedOnlyIfAnswered(transaction, faults) ==
    /\ \A i \in DOMAIN transaction.serial_numbers :
        ContainsSerialNumber(transaction.serial_numbers[i], faults) = Ok(FALSE)
    /\ \A i \in DOMAIN transaction.commitments :
        ContainsCommitment(transaction.commitments[i], faults) = Ok(FALSE)

\* The filter closure's answer for one transaction.
Admitted(transaction, faults) ==
    /\ \A i \in DOMAIN transaction.serial_numbers :
        ContainsSerialNumber(transaction.serial_numbers[i], faults) # Ok(TRUE)
    /\ \A i \in DOMAIN transaction.commitments :
        ContainsCommitment(transaction.commitments[i], faults) # Ok(TRUE)

AdmittedUnlessClaimed(transaction, faults, listed) ==
    /\ Admitted(transaction, faults)
    /\ \A i \in DOMAIN listed :
            Items(TxFromString(listed[i])) \cap Items(transaction) = {}

\* The closure is given one transaction and captures the ledger alone: the
\* transactions the pass has listed before are nothing to it.
AdmittedInPass(transaction, faults, listed) == Admitted(transaction, faults)

FeesWithEvery(transaction_fees, transaction, admitted) ==
    transaction_fees + transaction.value_balance

\* transaction_fees = transaction_fees.add(transaction.value_balance()), reached
\* only when nothing returned false before it.
FeesWith(transaction_fees, transaction, admitted) ==
    IF admitted THEN transaction_fees + transaction.value_balance ELSE transaction_fees

\* One pass of the filter closure and of the map after it.
FilterTransaction ==
    /\ tpl.pc = "filter"
    /\ tpl.next <= Len(tpl.pool)
    /\ LET transaction == tpl.pool[tpl.next]
       IN  \E faults \in SUBSET Items(transaction) :
           LET admitted == AdmittedInPass(transaction, faults, tpl.transactions)
           IN  tpl' = [tpl EXCEPT
                   !.next = tpl.next + 1,
                   !.transaction_fees = FeesWith(tpl.transaction_fees, transaction, admitted),
                   !.transactions =
                       IF admitted THEN Append(tpl.transactions, TxToString(transaction))
                       ELSE tpl.transactions]
    /\ UNCHANGED <<network_id, restVars, cmdVars, ledgerVars, poolVars, range_call, tpl_prev, tpl_result, tpl_seen>>

\* collect(): the iterator is exhausted and the read guard dropped.
CollectTransactions ==
    /\ tpl.pc = "filter"
    /\ tpl.next > Len(tpl.pool)
    /\ pool_readers' = pool_readers - 1
    /\ tpl' = [tpl EXCEPT !.pc = "fees"]
    /\ UNCHANGED <<network_id, restVars, cmdVars, ledgerVars, memory_pool, range_call, tpl_prev, tpl_result, tpl_seen>>

IsNegativeOrZero(transaction_fees) == transaction_fees <= 0

\* AleoAmount::is_negative
IsNegative(transaction_fees) == transaction_fees < 0

\* The fee check and the template.
FinishTemplate ==
    /\ tpl.pc = "fees"
    /\ IF IsNegative(tpl.transaction_fees)
       THEN /\ tpl_result' = Err("Invalid transaction fees")
            /\ tpl' = [tpl EXCEPT !.pc = "done"]
       ELSE LET coinbase_reward == tpl.coinbase_reward + tpl.transaction_fees
            IN  /\ tpl_result' = Ok([previous_block_hash |-> tpl.previous_block_hash,
                                     block_height |-> tpl.block_height,
                                     time |-> tpl.block_timestamp,
                                     difficulty_target |-> tpl.difficulty_target,
                                     cumulative_weight |-> tpl.cumulative_weight,
                                     ledger_root |-> tpl.ledger_root,
                                     transactions |-> tpl.transactions,
                                     coinbase_reward |-> coinbase_reward])
                /\ tpl' = [tpl EXCEPT !.pc = "done", !.coinbase_reward = coinbase_reward]
    /\ UNCHANGED <<network_id, restVars, cmdVars, ledgerVars, poolVars, range_call, tpl_prev, tpl_seen>>

\* The caller has the answer; the locals are gone.
TemplateReturned ==
    /\ tpl.pc = "done"
    /\ tpl' = TplIdle
    /\ tpl_result' = None
    /\ tpl_seen' = Unchanged
    /\ tpl_prev' = IF tpl_seen = Unchanged /\ tpl_result # Err("AnyhowError")
                   THEN [transactions |-> tpl.transactions,
                         transaction_fees |-> tpl.transaction_fees,
                         result |-> tpl_result]
                   ELSE None
    /\ UNCHANGED <<network_id, restVars, cmdVars, ledgerVars, poolVars, range_call>>

(***************************************************************************)
(* get_memory_pool                                                         *)
(***************************************************************************)
PoolQueryIdle == [pc |-> "idle", transactions |-> <<>>, result |-> None]

GetMemoryPoolTaking ==
    /\ pool_query.pc = "idle"
    /\ ~pool_waiting
    /\ pool_readers' = pool_readers + 1
    /\ pool_query' = [PoolQueryIdle EXCEPT !.pc = "reading", !.transactions = memory_pool]
    /\ memory_pool' = <<>>
    /\ UNCHANGED <<network_id, ledgerVars, range_call, tplVars, cmdVars,
                   connVars, shareVars, pool_waiting, query>>

\* self.memory_pool.read().await.transactions(): the read guard is taken
\* and the transactions are copied.
GetMemoryPool ==
    /\ pool_query.pc = "idle"
    /\ ~pool_waiting
    /\ pool_readers' = pool_readers + 1
    /\ pool_query' = [PoolQueryIdle EXCEPT !.pc = "reading", !.transactions = memory_pool]
    /\ UNCHANGED <<network_id, ledgerVars, memory_pool, range_call, tplVars, cmdVars,
                   connVars, shareVars, pool_waiting, query>>

\* Ok(..): the guard is dropped and the copy returned.
MemoryPoolReturn ==
    /\ pool_query.pc = "reading"
    /\ pool_readers' = pool_readers - 1
    /\ pool_query' = [pool_query EXCEPT !.pc = "done", !.result = Ok(pool_query.transactions)]
    /\ UNCHANGED <<network_id, ledgerVars, memory_pool, range_call, tplVars, cmdVars,
                   connVars, shareVars, pool_waiting, query>>

MemoryPoolReturned ==
    /\ pool_query.pc = "done"
    /\ pool_query' = PoolQueryIdle
    /\ UNCHANGED <<rpcVars, query, connVars, shareVars, pool_waiting>>

(***************************************************************************)
(* send_transaction and the prover's mailbox                               *)
(***************************************************************************)
\* Calls of send_transaction a run makes.
MaxCalls == 3
\* Longest hex string a caller passes.
MaxHexLen == 2
\* Capacity of the channel behind ProverRouter, and of the one behind the
\* peer registry's router.
RouterCapacity == 1
\* Longest list of peers a caller passes to connect.
MaxPeers == 2
\* Most shares one prover is credited in one round.
MaxShares == 2

HexDigit == [c \in {"0", "1"} |-> IF c = "0" THEN 0 ELSE 1]
HexAlphabet == {"0", "1", "g"}
HexStrings == UNION {[1..n -> HexAlphabet] : n \in 0..MaxHexLen}

HexValue(c) == IF c \in DOMAIN HexDigit THEN HexDigit[c] ELSE 0

HexDecodeLenient(str) ==
    IF Len(str) % 2 = 1 THEN Err("FromHexError")
    ELSE Ok([i \in 1..(Len(str) \div 2) |->
                16 * HexValue(str[2 * i - 1]) + HexValue(str[2 * i])])

\* hex::decode
HexDecode(str) ==
    IF Len(str) % 2 = 1 THEN Err("FromHexError")
    ELSE IF \E i \in DOMAIN str : str[i] \notin DOMAIN HexDigit THEN Err("FromHexError")
    ELSE Ok([i \in 1..(Len(str) \div 2) |->
                16 * HexDigit[str[2 * i - 1]] + HexDigit[str[2 * i]]])

\* The little-endian bytes of a transaction (ToBytes).
ToBytesLE(tx) == IF tx = TA THEN <<1>> ELSE IF tx = TB THEN <<16>> ELSE <<17>>

\* FromBytes::from_bytes_le
FromBytesLE(bytes) ==
    IF \E tx \in TxUniverse : ToBytesLE(tx) = bytes
    THEN Ok(CHOOSE tx \in TxUniverse : ToBytesLE(tx) = bytes)
    ELSE Err("StdIOError")

DecodeTransactionLenient(transaction_hex) ==
    LET bytes == HexDecodeLenient(transaction_hex)
    IN  IF bytes.ok THEN FromBytesLE(bytes.value) ELSE bytes

\* FromBytes::from_bytes_le(&hex::decode(transaction_hex)?)?
DecodeTransaction(transaction_hex) ==
    LET bytes == HexDecode(transaction_hex)
    IN  IF bytes.ok THEN FromBytesLE(bytes.value) ELSE bytes

TransactionId(tx) == <<"id", tx.transaction_id>>

SendIdle == [pc |-> "idle", transaction_hex |-> None, transaction |-> None,
             enqueued |-> 0, refused |-> FALSE, result |-> None]

\* The call and the decoding of its input.
SendTransaction ==
    /\ send_call.pc = "idle"
    /\ send_stats.calls < MaxCalls
    /\ \E transaction_hex \in HexStrings :
        LET transaction == DecodeTransaction(transaction_hex)
        IN  IF transaction.ok
            THEN /\ send_call' = [SendIdle EXCEPT !.pc = "send",
                                                  !.transaction_hex = transaction_hex,
                                                  !.transaction = transaction.value]
                 /\ send_stats' = [send_stats EXCEPT !.calls = @ + 1, !.decoded = @ + 1]
            ELSE /\ send_call' = [SendIdle EXCEPT !.pc = "done",
                                                  !.transaction_hex = transaction_hex,
                                                  !.result = transaction]
                 /\ send_stats' = [send_stats EXCEPT !.calls = @ + 1]
    /\ UNCHANGED <<network_id, restVars, ledgerVars, poolVars, range_call, tplVars, prover_router>>

SendResultPropagated(transaction, refused) ==
    IF refused THEN Err("SendError") ELSE Ok(TransactionId(transaction))

\* What the call returns once the send has completed: a refused send is
\* only logged.
SendResult(transaction, refused) == Ok(TransactionId(transaction))

SendNeverSuspended(router) == FALSE

\* Sender::send(..).await on a bounded channel stays pending, with no
\* timeout, exactly while the channel is open and holds RouterCapacity
\* messages.
SendSuspended(router) == ~router.closed /\ Len(router.queue) >= RouterCapacity

\* self.prover_router.send(request).await, and the return after it.  The
\* send completes at once on a closed channel, completes when the channel
\* has room, and stays pending while the channel is full and open.
RouterSend ==
    /\ send_call.pc = "send"
    /\ ~SendSuspended(prover_router)
    /\ IF prover_router.closed
       THEN /\ send_call' = [send_call EXCEPT
                    !.pc = "done", !.refused = TRUE,
                    !.result = SendResult(send_call.transaction, TRUE)]
            /\ UNCHANGED <<prover_router, send_stats>>
       ELSE /\ prover_router' = [prover_router EXCEPT
                    !.queue = Append(@, [kind |-> "UnconfirmedTransaction",
                                         peer_ip |-> "0.0.0.0:3032",
                                         transaction |-> send_call.transaction])]
            /\ send_stats' = [send_stats EXCEPT !.enqueued = @ + 1]
            /\ send_call' = [send_call EXCEPT
                    !.pc = "done", !.enqueued = @ + 1,
                    !.result = SendResult(send_call.transaction, FALSE)]
    /\ UNCHANGED <<network_id, restVars, ledgerVars, poolVars, range_call, tplVars>>

SendReturned ==
    /\ send_call.pc = "done"
    /\ send_call' = SendIdle
    /\ UNCHANGED <<network_id, restVars, ledgerVars, poolVars, range_call, tplVars,
                   prover_router, send_stats>>

\* The prover takes the next request off its mailbox.
ProverReceive ==
    /\ prover_router.queue # <<>>
    /\ prover_router' = [prover_router EXCEPT !.queue = Tail(@)]
    /\ UNCHANGED <<network_id, restVars, ledgerVars, poolVars, range_call, tplVars,
                   send_call, send_stats>>

\* The prover closes its mailbox.
ProverClose ==
    /\ ~prover_router.closed
    /\ prover_router' = [prover_router EXCEPT !.closed = TRUE]
    /\ UNCHANGED <<network_id, restVars, ledgerVars, poolVars, range_call, tplVars,
                   send_call, send_stats>>

(***************************************************************************)
(* connect and the peer registry's mailbox                                 *)
(***************************************************************************)
\* serde_json::Value, as far as connect looks at it: a JSON string or a
\* JSON number, with its characters.
JsonString(text) == [type |-> "string", text |-> text]
JsonNumber(text) == [type |-> "number", text |-> text]

\* The socket addresses SocketAddr::from_str accepts, as characters.
SocketAddrs == {<<"1", ":", "1">>, <<"2", ":", "1">>}

\* The items a peer list is made of: two addresses, a string that is no
\* address, and a number.
PeerValues ==
    {JsonString(a) : a \in SocketAddrs} \cup {JsonString(<<"x">>), JsonNumber(<<"7">>)}

PeerLists == UNION {[1 .. n -> PeerValues] : n \in 0 .. MaxPeers}

\* peer_ip.to_string(): the JSON text of the value, a string in its quotes.
JsonToString(value) ==
    IF value.type = "string" THEN <<"\"">> \o value.text \o <<"\"">>
    ELSE value.text

Panic(message) == [ok |-> FALSE, panic |-> TRUE, message |-> message]

StripQuotesNot(text) == Ok(text)

\* peer_ip[1..peer_ip.len() - 1]: the text without its first and last
\* character; the slice panics when the text has fewer than two.
StripQuotes(text) ==
    IF Len(text) < 2 THEN Panic("slice index") ELSE Ok(SubSeq(text, 2, Len(text) - 1))

\* str::parse::<SocketAddr>()
ParseSocketAddr(text) ==
    IF text \in SocketAddrs THEN Ok(text) ELSE Err("AddrParseError")

\* The address of one list item, or the panic the item ends in.
PeerAddress(value) ==
    LET inner == StripQuotes(JsonToString(value))
    IN  IF ~inner.ok THEN inner
        ELSE LET addr == ParseSocketAddr(inner.value)
             IN  IF addr.ok THEN addr ELSE Panic(addr.error)

ConnectIdle ==
    [pc |-> "idle", peers |-> <<>>, i |-> 0, res |-> None, attempts |-> <<>>,
     result |-> None]

PeerAnswers == {"connected", "failed"}

NoPeers == [candidate |-> {}, connected |-> {}]

\* connect(peers): the call is made.
Connect ==
    /\ connect_call.pc = "idle"
    /\ \E list \in PeerLists :
            connect_call' = [ConnectIdle EXCEPT !.pc = "loop", !.peers = list, !.i = 1]
    /\ UNCHANGED <<rpcVars, query, shareVars, readVars,
                   peers_router, peers>>

\* One pass of the loop up to the send: the item is turned into an address,
\* and the call panics when it is none.
ConnectParse ==
    /\ connect_call.pc = "loop"
    /\ connect_call.i <= Len(connect_call.peers)
    /\ LET addr == PeerAddress(connect_call.peers[connect_call.i])
       IN  connect_call' =
                IF addr.ok THEN [connect_call EXCEPT !.pc = "send", !.res = addr.value]
                ELSE [connect_call EXCEPT !.pc = "panicked"]
    /\ UNCHANGED <<rpcVars, query, shareVars, readVars,
                   peers_router, peers>>

\* self.peers.router().send(PeersRequest::Connect(..)).await: a refused
\* send is logged and the loop goes on.
ConnectSend ==
    /\ connect_call.pc = "send"
    /\ ~SendSuspended(peers_router)
    /\ IF peers_router.closed
       THEN /\ connect_call' = [connect_call EXCEPT
                    !.pc = "loop", !.i = @ + 1, !.res = None,
                    !.attempts = Append(@, [addr |-> connect_call.res,
                                            accepted |-> FALSE])]
            /\ UNCHANGED peers_router
       ELSE /\ peers_router' = [peers_router EXCEPT
                    !.queue = Append(@, [kind |-> "Connect",
                                         addr |-> connect_call.res])]
            /\ connect_call' = [connect_call EXCEPT
                    !.pc = "loop", !.i = @ + 1, !.res = None,
                    !.attempts = Append(@, [addr |-> connect_call.res,
                                            accepted |-> TRUE])]
    /\ UNCHANGED <<rpcVars, query, shareVars, readVars, peers>>

ConnectResultAllAccepted(attempts) ==
    Ok(\A k \in 1 .. Len(attempts) : attempts[k].accepted)

\* Ok(true), whatever the sends came to.
ConnectResult(attempts) == Ok(TRUE)

\* The loop is over: the call returns.
ConnectReturn ==
    /\ connect_call.pc = "loop"
    /\ connect_call.i > Len(connect_call.peers)
    /\ connect_call' = [connect_call EXCEPT
            !.pc = "done", !.result = ConnectResult(connect_call.attempts)]
    /\ UNCHANGED <<rpcVars, query, shareVars, readVars,
                   peers_router, peers>>

ConnectReturned ==
    /\ connect_call.pc = "done"
    /\ connect_call' = ConnectIdle
    /\ UNCHANGED <<rpcVars, query, shareVars, readVars,
                   peers_router, peers>>

\* The peer registry takes the next request off its mailbox, connects to
\* the peer or fails to, and answers on the request's reply channel, whose
\* receiving end connect has dropped or never reads.
PeersReceive ==
    /\ peers_router.queue # <<>>
    /\ \E answer \in PeerAnswers :
        /\ peers_router' = [peers_router EXCEPT !.queue = Tail(@)]
        /\ peers' = IF answer = "connected"
                    THEN [peers EXCEPT !.connected = @ \cup {Head(peers_router.queue).addr}]
                    ELSE peers
    /\ UNCHANGED <<rpcVars, query, shareVars, readVars,
                   connect_call>>

\* The peer registry closes its mailbox.
PeersClose ==
    /\ ~peers_router.closed
    /\ peers_router' = [peers_router EXCEPT !.closed = TRUE]
    /\ UNCHANGED <<rpcVars, query, shareVars, readVars,
                   connect_call, peers>>

(***************************************************************************)
(* The operator's share ledger and its queries                             *)
(***************************************************************************)
Rounds == {"r1", "r2"}
Provers == {"pa", "pb"}

\* What get_share_for_prover is asked about: the two provers, a well-formed
\* address no share was ever credited to, a string that is no address, and
\* a number.
Addresses == Provers \cup {"pc"}
ProverValues == {JsonString(a) : a \in Addresses} \cup {JsonString("x"), JsonNumber("7")}

\* The pool credits one share to a prover in a round.
CreditShare ==
    /\ \E round \in Rounds, prover \in Provers :
        LET credited == IF round \in DOMAIN shares THEN shares[round] ELSE <<>>
            count == IF prover \in DOMAIN credited THEN credited[prover] ELSE 0
        IN  /\ count < MaxShares
            /\ shares' = [r \in DOMAIN shares \cup {round} |->
                            IF r = round
                            THEN [p \in DOMAIN credited \cup {prover} |->
                                    IF p = prover THEN count + 1 ELSE credited[p]]
                            ELSE shares[r]]
    /\ UNCHANGED <<rpcVars, query, connVars, readVars, share_call>>

\* A set as a sequence, in some order.
RECURSIVE SeqOf(_)
SeqOf(set) ==
    IF set = {} THEN <<>>
    ELSE LET x == CHOOSE x \in set : TRUE IN <<x>> \o SeqOf(set \ {x})

\* self.operator.to_shares(): the ledger as a list of (round, prover -> shares).
ToShares == [k \in 1 .. Cardinality(DOMAIN shares) |->
                <<SeqOf(DOMAIN shares)[k], shares[SeqOf(DOMAIN shares)[k]]>>]

\* share.values().sum::<u64>()
RECURSIVE SumValues(_, _)
SumValues(share, keys) ==
    IF keys = {} THEN 0
    ELSE LET p == CHOOSE p \in keys : TRUE
         IN  share[p] + SumValues(share, keys \ {p})

SumSharesOfFirstRound(list) ==
    IF list = <<>> THEN 0 ELSE SumValues(Head(list)[2], DOMAIN Head(list)[2])

\* for (_, share) in shares { res += share.values().sum::<u64>(); }
RECURSIVE SumShares(_)
SumShares(list) ==
    IF list = <<>> THEN 0
    ELSE SumValues(Head(list)[2], DOMAIN Head(list)[2]) + SumShares(Tail(list))

\* get_shares()
GetShares ==
    /\ share_call' = [op |-> "get_shares", result |-> Ok(SumShares(ToShares))]
    /\ UNCHANGED <<rpcVars, query, connVars, readVars, shares>>

\* serde_json::from_value::<Address<N>>(prover)
DecodeAddress(value) ==
    IF value.type = "string" /\ value.text \in Addresses THEN Ok(value.text)
    ELSE Err("SerdeJsonError")

\* self.operator.get_shares_for_prover(&prover): the prover's shares over
\* all rounds, none when it was credited in no round.
RECURSIVE GetSharesForProver(_, _)
GetSharesForProver(prover, rounds) ==
    IF rounds = {} THEN 0
    ELSE LET r == CHOOSE r \in rounds : TRUE
         IN  (IF prover \in DOMAIN shares[r] THEN shares[r][prover] ELSE 0)
                + GetSharesForProver(prover, rounds \ {r})

ShareForProverOrMissing(value) ==
    LET prover == DecodeAddress(value)
    IN  IF ~prover.ok THEN prover
        ELSE IF \E r \in DOMAIN shares : prover.value \in DOMAIN shares[r]
             THEN Ok(GetSharesForProver(prover.value, DOMAIN shares))
             ELSE Err("prover not found")

\* What get_share_for_prover(prover) returns.
ShareForProver(value) ==
    LET prover == DecodeAddress(value)
    IN  IF ~prover.ok THEN prover
        ELSE Ok(GetSharesForProver(prover.value, DOMAIN shares))

\* get_share_for_prover(prover)
GetShareForProver ==
    /\ \E value \in ProverValues :
            share_call' = [op |-> "get_share_for_prover", prover |-> value,
                           result |-> ShareForProver(value)]
    /\ UNCHANGED <<rpcVars, query, connVars, readVars, shares>>

(***************************************************************************)
(* The queries that are one read of the ledger, the peers or the operator  *)
(***************************************************************************)
NoQuery == [op |-> "none"]

Transactions(b) == <<"transactions", b.header>>

LatestOps ==
    {"latest_block", "latest_block_height", "latest_cumulative_weight",
     "latest_block_hash", "latest_block_header", "latest_block_transactions",
     "latest_ledger_root"}

\* What a query of a block answers with.
BlockAnswer(op, b) ==
    CASE op \in {"latest_block", "get_block"} -> b
      [] op = "latest_block_height" -> b.header.height
      [] op = "latest_cumulative_weight" -> b.cumulative_weight
      [] op \in {"latest_block_hash", "get_block_hash"} -> Hash(b)
      [] op \in {"latest_block_header", "get_block_header"} -> Header(b)
      [] op \in {"latest_block_transactions", "get_block_transactions"} -> Transactions(b)
      [] op = "latest_ledger_root" -> LedgerRootOf(b)

\* latest_block() .. latest_ledger_root()
LatestQuery ==
    /\ \E op \in LatestOps :
            query' = [op |-> op, result |-> Ok(BlockAnswer(op, LatestBlock))]
    /\ UNCHANGED <<rpcVars, connVars, shareVars, readVars>>

HeightOps == {"get_block", "get_block_hash", "get_block_header", "get_block_transactions"}

\* The ledger's read of the block at a height: it fails for a height past the
\* tip, and when the storage fails.
LedgerGetBlock(block_height, fault) ==
    IF fault \/ block_height > LatestBlockHeight THEN Err("storage")
    ELSE Ok(blocks[block_height + 1])

\* get_block(h), get_block_hash(h), get_block_header(h), get_block_transactions(h)
HeightQuery ==
    /\ \E op \in HeightOps, block_height \in 0 .. MaxQueryHeight, fault \in BOOLEAN :
        LET b == LedgerGetBlock(block_height, fault)
        IN  query' = [op |-> op, result |-> IF b.ok THEN Ok(BlockAnswer(op, b.value)) ELSE b]
    /\ UNCHANGED <<rpcVars, connVars, shareVars, readVars>>

\* The block hashes there are, and what get_block_height is asked about:
\* the hashes, a string that is no hash, and a number.
BlockHashes ==
    {<<"hash", [height |-> h, difficulty_target |-> t]>> :
        h \in 0 .. MaxQueryHeight, t \in BlockTargets \cup {U64_MAX}}
HashValues ==
    {JsonString(h) : h \in BlockHashes} \cup {JsonString(<<"x">>), JsonNumber(<<"7">>)}

\* serde_json::from_value::<N::BlockHash>(block_hash)
DecodeBlockHash(value) ==
    IF value.type = "string" /\ value.text \in BlockHashes THEN Ok(value.text)
    ELSE Err("SerdeJsonError")

\* get_block_height(block_hash)
GetBlockHeight ==
    /\ \E value \in HashValues :
        LET block_hash == DecodeBlockHash(value)
        IN  query' = [op |-> "get_block_height",
                      result |->
                        IF ~block_hash.ok THEN block_hash
                        ELSE IF \E h \in 0 .. LatestBlockHeight :
                                    Hash(blocks[h + 1]) = block_hash.value
                        THEN Ok(block_hash.value[2].height)
                        ELSE Err("storage")]
    /\ UNCHANGED <<rpcVars, connVars, shareVars, readVars>>

\* get_connected_peers()
GetConnectedPeers ==
    /\ query' = [op |-> "get_connected_peers", result |-> Ok(peers.connected)]
    /\ UNCHANGED <<rpcVars, connVars, shareVars, readVars>>

\* The peers that are sync nodes.
SyncNodes == {<<"2", ":", "1">>}

\* get_node_state(): the peers' and the ledger's figures at the time.
GetNodeState ==
    /\ query' = [op |-> "get_node_state",
                 result |-> Ok([candidate_peers |-> peers.candidate,
                                connected_peers |-> peers.connected,
                                latest_block_hash |-> Hash(LatestBlock),
                                latest_block_height |-> LatestBlockHeight,
                                latest_cumulative_weight |-> LatestBlock.cumulative_weight,
                                number_of_candidate_peers |-> Cardinality(peers.candidate),
                                number_of_connected_peers |-> Cardinality(peers.connected),
                                number_of_connected_sync_nodes |->
                                    Cardinality(peers.connected \cap SyncNodes)])]
    /\ UNCHANGED <<rpcVars, connVars, shareVars, readVars>>

\* self.operator.get_provers(): the provers the operator knows.
ProversKnown == UNION {DOMAIN shares[r] : r \in DOMAIN shares}

\* get_provers()
GetProvers ==
    /\ query' = [op |-> "get_provers", result |-> Ok(ProversKnown)]
    /\ UNCHANGED <<rpcVars, connVars, shareVars, readVars>>

\* The caller has the answer.
QueryReturned ==
    /\ query.op # "none"
    /\ query' = NoQuery
    /\ UNCHANGED <<rpcVars, connVars, shareVars, readVars>>

RangeReturned ==
    /\ range_call # None
    /\ range_call' = None
    /\ UNCHANGED <<network_id, restVars, cmdVars, ledgerVars, poolVars, tplVars>>

ShareReturned ==
    /\ share_call # None
    /\ share_call' = None
    /\ UNCHANGED <<rpcVars, query, connVars, readVars, shares>>

(***************************************************************************)
(* Specifications                                                          *)
(***************************************************************************)
\* Everything but the ledger, as RpcImpl::new finds it in a node that has
\* just started.
InitNode ==
    /\ network_id \in {1, 2}
    /\ memory_pool = <<>>
    /\ pool_readers = 0
    /\ range_call = None
    /\ tpl = TplIdle
    /\ tpl_result = None
    /\ tpl_seen = Unchanged
    /\ prover_router = [queue |-> <<>>, closed |-> FALSE]
    /\ send_call = SendIdle
    /\ send_stats = [calls |-> 0, decoded |-> 0, enqueued |-> 0]
    /\ peers_router = [queue |-> <<>>, closed |-> FALSE]
    /\ connect_call = ConnectIdle
    /\ share_call = None
    /\ tpl_prev = None
    /\ pool_query = PoolQueryIdle
    /\ pool_waiting = FALSE
    /\ query = NoQuery

Init ==
    /\ blocks = <<GenesisBlock>>
    /\ serial_numbers = {}
    /\ commitments = {}
    /\ peers = NoPeers
    /\ shares = <<>>
    /\ InitNode

\* A node whose registry holds peers and whose operator has credited shares.
InitQueries ==
    /\ blocks = <<GenesisBlock>>
    /\ serial_numbers = {}
    /\ commitments = {}
    /\ peers = [candidate |-> {<<"1", ":", "1">>}, connected |-> {<<"2", ":", "1">>}]
    /\ shares = [r \in {"r1"} |-> [p \in {"pa"} |-> 1]]
    /\ InitNode

\* A ledger of the genesis block alone, or one that has accepted a block
\* confirming TC.
InitReaders ==
    /\ \/ /\ blocks = <<GenesisBlock>>
          /\ serial_numbers = {}
          /\ commitments = {}
       \/ /\ blocks = <<GenesisBlock,
                         [header |-> [height |-> 1, difficulty_target |-> 1],
                          cumulative_weight |-> WeightOf(1)]>>
          /\ serial_numbers = Range(TC.serial_numbers)
          /\ commitments = Range(TC.commitments)
    /\ peers = NoPeers
    /\ shares = <<>>
    /\ InitNode

Next ==
    \/ AcceptBlock
    \/ MempoolInsert
    \/ MempoolRemove
    \/ GetBlockTemplate
    \/ ReadLatestBlock
    \/ ReadLedgerRoot
    \/ PrepareBlock
    \/ ComputeDifficulty
    \/ ReadMemoryPool
    \/ FilterTransaction
    \/ CollectTransactions
    \/ FinishTemplate
    \/ TemplateReturned

Spec == Init /\ [][Next]_vars

NextRange ==
    \/ AcceptBlock
    \/ GetBlocks
    \/ GetBlockHashes

SpecRange == Init /\ [][NextRange]_vars

NextCommands ==
    \/ SendTransaction
    \/ RouterSend
    \/ SendReturned
    \/ ProverReceive
    \/ ProverClose

SpecCommands == Init /\ [][NextCommands]_vars

NextConnect ==
    \/ Connect
    \/ ConnectParse
    \/ ConnectSend
    \/ ConnectReturn
    \/ ConnectReturned
    \/ PeersReceive
    \/ PeersClose

SpecConnect == Init /\ [][NextConnect]_vars

\* send_transaction with the prover's mailbox and connect with the peer
\* registry's share no state: a behaviour follows the one or the other.
ProverSideUntouched ==
    /\ send_call.pc = "idle"
    /\ send_stats.calls = 0
    /\ prover_router.queue = <<>>
    /\ ~prover_router.closed

PeerSideUntouched ==
    /\ connect_call.pc = "idle"
    /\ peers_router.queue = <<>>
    /\ ~peers_router.closed
    /\ peers = NoPeers

NextMailbox ==
    \/ (PeerSideUntouched /\ NextCommands)
    \/ (ProverSideUntouched /\ NextConnect)

NextReaders ==
    \/ MempoolWriteRequest
    \/ MempoolInsert
    \/ MempoolRemove
    \/ GetBlockTemplate
    \/ ReadLatestBlock
    \/ ReadLedgerRoot
    \/ PrepareBlock
    \/ ComputeDifficulty
    \/ ReadMemoryPool
    \/ FilterTransaction
    \/ CollectTransactions
    \/ FinishTemplate
    \/ TemplateReturned
    \/ GetMemoryPool
    \/ MemoryPoolReturn
    \/ MemoryPoolReturned

SpecReaders == InitReaders /\ [][NextReaders]_vars

\* No query is under way.
Quiet ==
    /\ tpl.pc = "idle"
    /\ pool_query.pc = "idle"
    /\ query.op = "none"
    /\ range_call = None
    /\ share_call = None

\* One client making its queries one after the other, the ledger and the
\* memory pool changing beside it.
NextQueries ==
    \/ AcceptBlock
    \/ MempoolInsert
    \/ MempoolRemove
    \/ (Quiet /\ GetBlockTemplate)
    \/ ReadLatestBlock
    \/ ReadLedgerRoot
    \/ PrepareBlock
    \/ ComputeDifficulty
    \/ ReadMemoryPool
    \/ FilterTransaction
    \/ CollectTransactions
    \/ FinishTemplate
    \/ TemplateReturned
    \/ (Quiet /\ GetMemoryPool)
    \/ MemoryPoolReturn
    \/ MemoryPoolReturned
    \/ (Quiet /\ LatestQuery)
    \/ (Quiet /\ HeightQuery)
    \/ (Quiet /\ GetBlockHeight)
    \/ (Quiet /\ GetConnectedPeers)
    \/ (Quiet /\ GetNodeState)
    \/ (Quiet /\ GetProvers)
    \/ QueryReturned
    \/ (Quiet /\ GetBlocks)
    \/ (Quiet /\ GetBlockHashes)
    \/ RangeReturned
    \/ (Quiet /\ GetShares)
    \/ (Quiet /\ GetShareForProver)
    \/ ShareReturned

SpecQueries == InitQueries /\ [][NextQueries]_vars

NextShares ==
    \/ CreditShare
    \/ GetShares
    \/ GetShareForProver

SpecShares == Init /\ [][NextShares]_vars

SpecMailbox == Init /\ [][NextMailbox]_vars

(***************************************************************************)
(* Properties                                                              *)
(***************************************************************************)
\* C1: for start <= end a range query asks the ledger for the heights
\* max(start, end - (W - 1)) .. end, the subtraction stopping at 0: at most
\* W heights, ending at end, never an empty or inverted range, and the
\* whole of start .. end when it has at most W heights; what the ledger
\* returns has one item per height asked for.
C1_RangeWindow ==
    (range_call # None /\ range_call.start <= range_call.end) =>
        LET start == range_call.start
            end == range_call.end
            floor == IF end < MAXIMUM_BLOCK_REQUEST - 1 THEN 0
                     ELSE end - (MAXIMUM_BLOCK_REQUEST - 1)
            from == range_call.asked_from
            to == range_call.asked_to
        IN  /\ from = (IF start >= floor THEN start ELSE floor)
            /\ to = end
            /\ from <= to
            /\ to - from + 1 <= MAXIMUM_BLOCK_REQUEST
            /\ (end - start + 1 <= MAXIMUM_BLOCK_REQUEST) => from = start
            /\ range_call.result.ok =>
                /\ Len(range_call.result.value) = to - from + 1
                /\ \A i \in DOMAIN range_call.result.value :
                    range_call.result.value[i] =
                        IF range_call.kind = "blocks" THEN blocks[from + i]
                        ELSE Hash(blocks[from + i])

\* A request wider than W that the ledger answered with W items.
C1_Witness ==
    /\ range_call # None
    /\ range_call.start < range_call.asked_from
    /\ range_call.result.ok
    /\ Len(range_call.result.value) = MAXIMUM_BLOCK_REQUEST

TplDone == tpl.pc = "done"
TplReturnedTemplate == tpl.pc = "done" /\ tpl_result.ok
TplRetargeted == tpl.pc \in {"read_pool", "filter", "fees"} \/ TplReturnedTemplate
    \/ (tpl.pc = "done" /\ tpl_result = Err("Invalid transaction fees"))

Recorded(tx) ==
    \/ \E i \in DOMAIN tx.serial_numbers : tx.serial_numbers[i] \in serial_numbers
    \/ \E i \in DOMAIN tx.commitments : tx.commitments[i] \in commitments
NotRecorded(tx) == ~Recorded(tx)

Listed(template) == [i \in DOMAIN template.transactions |->
                        TxFromString(template.transactions[i])]

\* C2: with the memory pool and the ledger unchanged during the call, the
\* template lists exactly the memory pool's transactions none of whose
\* serial numbers and commitments is recorded in the ledger, in pool order.
C2_ListedExactlyUnrecorded ==
    (TplReturnedTemplate /\ tpl_seen = Unchanged) =>
        Listed(tpl_result.value) = SelectSeq(memory_pool, NotRecorded)

\* C3: the coinbase reward of a template is the block reward of its height
\* plus the value balances of the transactions it lists, and of no other.
C3_CoinbaseReward ==
    TplReturnedTemplate =>
        tpl_result.value.coinbase_reward =
            BlockReward(tpl_result.value.block_height)
                + SumValueBalance(Listed(tpl_result.value))

\* A template that lists one transaction of the pool and leaves one out.
C3_Witness ==
    /\ TplReturnedTemplate
    /\ Len(tpl_result.value.transactions) = 1
    /\ Len(tpl.pool) = 2

\* C4: the call returns the validation error, and no template, exactly
\* when the value balances of the transactions the filter admitted sum to
\* less than zero, whatever the sign of each; and no step of the call
\* changes the ledger, the memory pool's transactions or the prover's mailbox.
C4_NegativeFeesFail ==
    /\ [](TplDone =>
            (tpl_result = Err("Invalid transaction fees")
                <=> SumValueBalance([i \in DOMAIN tpl.transactions |->
                        TxFromString(tpl.transactions[i])]) < 0))
    /\ [][(tpl'.pc # tpl.pc \/ tpl'.next # tpl.next) =>
            UNCHANGED <<ledgerVars, memory_pool, prover_router>>]_vars

\* A failed build, with nothing changed around it.
C4_Witness ==
    /\ TplDone
    /\ tpl_result = Err("Invalid transaction fees")
    /\ tpl_seen = Unchanged

\* C5: on network 2 the target for a height up to the anchor height is
\* computed from the header of the tip block the call read (the current
\* tip when no block was accepted since), and for every height past it
\* from the header the ledger holds at the anchor height, or the call has
\* failed on reading that header.
C5_UpgradedNetworkRetarget ==
    (network_id = 2 /\ (TplRetargeted \/ TplDone)) =>
        IF tpl.block_height <= V12_UPGRADE_BLOCK_HEIGHT
        THEN /\ tpl.retarget_header = Header(tpl.latest_block)
             /\ ~tpl_seen.ledger_changed => tpl.retarget_header = Header(LatestBlock)
        ELSE \/ tpl.retarget_header = Header(blocks[V12_UPGRADE_BLOCK_HEIGHT + 1])
             \/ /\ tpl.retarget_header = None
                /\ tpl_result = Err("AnyhowError")

\* A template for a height two past the anchor: the anchor header is not
\* the tip's.
C5_Witness ==
    /\ network_id = 2
    /\ TplReturnedTemplate
    /\ tpl.block_height = V12_UPGRADE_BLOCK_HEIGHT + 2
    /\ tpl.retarget_header = Header(blocks[V12_UPGRADE_BLOCK_HEIGHT + 1])
    /\ tpl.retarget_header # Header(tpl.latest_block)

\* C6, as stated: on a network other than 2 the target is computed from
\* the header of the current tip at every height.
C6_OriginalNetworkRetargetsFromTip ==
    (network_id # 2 /\ TplRetargeted) => tpl.retarget_header = Header(tpl.latest_block)

\* C6, amended: on a network other than 2 the target is computed from the
\* header of the genesis block at every height, and the retargeting never
\* fails.
C6_OriginalNetworkRetargetsFromGenesis ==
    (network_id # 2 /\ (TplRetargeted \/ TplDone)) =>
        /\ tpl.retarget_header = Header(blocks[1])
        /\ tpl_result # Err("AnyhowError")

\* A template on network 1 whose tip is not the genesis block.
C6_Witness ==
    /\ network_id = 1
    /\ TplReturnedTemplate
    /\ tpl.latest_block # blocks[1]
    /\ tpl.retarget_header = Header(blocks[1])

\* C7: the cumulative weight is the weight of the tip block the call read
\* plus floor(u64::MAX / difficulty_target), never less than the tip's, and
\* a larger target never contributes more.
C7_CumulativeWeight ==
    /\ TplRetargeted =>
        /\ tpl.difficulty_target \in 1..U64_MAX
        /\ tpl.cumulative_weight =
              tpl.latest_block.cumulative_weight + (U64_MAX \div tpl.difficulty_target)
        /\ tpl.cumulative_weight >= tpl.latest_block.cumulative_weight
        /\ \A larger \in tpl.difficulty_target..U64_MAX :
              CumulativeWeight(tpl.latest_block, larger) <= tpl.cumulative_weight
    /\ TplReturnedTemplate =>
        /\ tpl_result.value.cumulative_weight = tpl.cumulative_weight
        /\ tpl_result.value.difficulty_target = tpl.difficulty_target

\* A template whose cumulative weight is past the range of a u64.
C7_Witness ==
    /\ TplReturnedTemplate
    /\ tpl_result.value.difficulty_target > 1
    /\ tpl_result.value.cumulative_weight > U64_MAX

\* C8: when no block was accepted during the call, the template names the
\* tip's hash, the tip's height + 1 and the tip's ledger root.
C8_TemplateOfTip ==
    (TplReturnedTemplate /\ ~tpl_seen.ledger_changed) =>
        /\ tpl_result.value.previous_block_hash = Hash(LatestBlock)
        /\ tpl_result.value.block_height = LatestBlockHeight + 1
        /\ tpl_result.value.ledger_root = LedgerRootOf(LatestBlock)

\* A template built on a tip other than the genesis block, undisturbed.
C8_Witness ==
    /\ TplReturnedTemplate
    /\ ~tpl_seen.ledger_changed
    /\ LatestBlockHeight >= 1
    /\ tpl_result.value.block_height = LatestBlockHeight + 1

\* The hex strings that are the encoding of a transaction.
TransactionHexOf(tx) ==
    IF tx = TA THEN <<"0", "1">> ELSE IF tx = TB THEN <<"1", "0">> ELSE <<"1", "1">>
WellFormed(transaction_hex) == \E tx \in TxUniverse : TransactionHexOf(tx) = transaction_hex

\* C9: a call whose input is not the hex of a transaction returns a decode
\* error and puts nothing in the prover's mailbox; the mailbox has taken at
\* most as many messages as calls have decoded their input.
C9_MalformedNeverDispatched ==
    /\ send_stats.enqueued <= send_stats.decoded
    /\ send_stats.decoded <= send_stats.calls
    /\ (send_call.pc # "idle" /\ ~WellFormed(send_call.transaction_hex)) =>
        /\ send_call.pc = "done"
        /\ send_call.result \in {Err("FromHexError"), Err("StdIOError")}
        /\ send_call.enqueued = 0

\* A malformed input refused while the mailbox is open and empty.
C9_Witness ==
    /\ send_call.pc = "done"
    /\ ~WellFormed(send_call.transaction_hex)
    /\ ~send_call.result.ok
    /\ ~prover_router.closed
    /\ prover_router.queue = <<>>
    /\ send_stats.enqueued = 0

\* C10: a call on the hex of a transaction returns that transaction's id
\* whether the mailbox took the message or refused it, and puts at most one
\* message in the mailbox: one when it was open, none when it was closed.
C10_IdWhateverTheMailbox ==
    (send_call.pc = "done" /\ WellFormed(send_call.transaction_hex)) =>
        /\ \E tx \in TxUniverse :
            /\ TransactionHexOf(tx) = send_call.transaction_hex
            /\ send_call.result = Ok(<<"id", tx.transaction_id>>)
        /\ send_call.enqueued = (IF send_call.refused THEN 0 ELSE 1)
        /\ send_call.refused => prover_router.closed

\* The id returned although the closed mailbox refused the message.
C10_Witness ==
    /\ send_call.pc = "done"
    /\ WellFormed(send_call.transaction_hex)
    /\ send_call.result.ok
    /\ send_call.refused
    /\ send_call.enqueued = 0


\* A list item connect can turn into an address: a JSON string holding a
\* socket address.
WellFormedPeer(value) == value.type = "string" /\ value.text \in SocketAddrs

AllWellFormed(list) == \A k \in 1 .. Len(list) : WellFormedPeer(list[k])

ConnectMessage(addr) == [kind |-> "Connect", addr |-> addr]

\* C11: connect on a list of well-formed addresses attempts one Connect
\* message per item, in list order, and then returns true: the attempts so
\* far are always the addresses of the first items of the list, each attempt
\* puts its message at the back of the peer registry's mailbox when it is
\* accepted and nothing when it is refused, and the returned call has
\* attempted every item and answers true whatever the sends came to and
\* whatever the registry did with the requests.
C11_ConnectSendsEachInOrder ==
    /\ [](AllWellFormed(connect_call.peers) =>
            /\ connect_call.pc # "panicked"
            /\ Len(connect_call.attempts) <= Len(connect_call.peers)
            /\ \A k \in 1 .. Len(connect_call.attempts) :
                    connect_call.attempts[k].addr = connect_call.peers[k].text
            /\ connect_call.pc = "done" =>
                    /\ Len(connect_call.attempts) = Len(connect_call.peers)
                    /\ connect_call.result = Ok(TRUE))
    /\ [][(AllWellFormed(connect_call.peers)
            /\ Len(connect_call'.attempts) > Len(connect_call.attempts)) =>
                LET attempt == connect_call'.attempts[Len(connect_call'.attempts)]
                IN  /\ Len(connect_call'.attempts) = Len(connect_call.attempts) + 1
                    /\ peers_router'.queue =
                            IF attempt.accepted
                            THEN Append(peers_router.queue, ConnectMessage(attempt.addr))
                            ELSE peers_router.queue]_vars

\* connect has returned from a list of two addresses, the first send
\* accepted and answered by the registry, the second refused.
C11_Witness ==
    /\ connect_call.pc = "done"
    /\ Len(connect_call.peers) = 2
    /\ AllWellFormed(connect_call.peers)
    /\ connect_call.attempts[1].accepted
    /\ ~connect_call.attempts[2].accepted
    /\ connect_call.attempts[1].addr # connect_call.attempts[2].addr
    /\ peers.connected # {}
    /\ connect_call.result = Ok(TRUE)

\* The place of the first malformed item of a list, one past its end when
\* there is none.
FirstMalformed(list) ==
    IF AllWellFormed(list) THEN Len(list) + 1
    ELSE CHOOSE k \in 1 .. Len(list) :
            ~WellFormedPeer(list[k]) /\ \A j \in 1 .. k - 1 : WellFormedPeer(list[j])

\* C17: connect on a list with a malformed item panics at the first such
\* item: the call never returns an acknowledgment, it has attempted exactly
\* the items before the malformed one, the panic leaves the mailbox as it
\* is, and the panicked call does nothing more.
C17_MalformedPeerPanics ==
    /\ [](/\ connect_call.pc = "done" => AllWellFormed(connect_call.peers)
          /\ Len(connect_call.attempts) < FirstMalformed(connect_call.peers)
          /\ connect_call.pc = "panicked" =>
                /\ connect_call.i = FirstMalformed(connect_call.peers)
                /\ connect_call.i <= Len(connect_call.peers)
                /\ Len(connect_call.attempts) = connect_call.i - 1
                /\ connect_call.result = None)
    /\ [][/\ (connect_call.pc # "panicked" /\ connect_call'.pc = "panicked") =>
                peers_router' = peers_router
          /\ connect_call.pc = "panicked" => connect_call' = connect_call]_vars

\* connect has panicked at the second item of a list, the request for the
\* first item in the mailbox.
C17_Witness ==
    /\ connect_call.pc = "panicked"
    /\ connect_call.i = 2
    /\ Len(connect_call.peers) = 2
    /\ peers_router.queue = <<ConnectMessage(connect_call.peers[1].text)>>

MailboxFull(router) == Len(router.queue) >= RouterCapacity

\* C18: a send of send_transaction or connect into a mailbox that is full
\* and open cannot complete and leaves the call where it is; a send into a
\* mailbox that is closed or has room can complete; a send that completes on
\* an open mailbox puts its message at the back of it, one that completes
\* on a closed mailbox leaves it alone, and either way the call goes on to
\* its normal result; no mailbox ever holds more than its capacity.
C18_FullMailboxSuspends ==
    /\ [](/\ Len(prover_router.queue) <= RouterCapacity
          /\ Len(peers_router.queue) <= RouterCapacity
          /\ send_call.pc = "send" =>
                ((ENABLED RouterSend) <=>
                    (prover_router.closed \/ ~MailboxFull(prover_router)))
          /\ connect_call.pc = "send" =>
                ((ENABLED ConnectSend) <=>
                    (peers_router.closed \/ ~MailboxFull(peers_router))))
    /\ [][/\ (send_call.pc = "send" /\ send_call' # send_call) =>
                /\ prover_router.closed \/ ~MailboxFull(prover_router)
                /\ send_call'.pc = "done"
                /\ send_call'.result = Ok(TransactionId(send_call.transaction))
                /\ prover_router' =
                        IF prover_router.closed THEN prover_router
                        ELSE [prover_router EXCEPT !.queue = Append(@,
                                [kind |-> "UnconfirmedTransaction",
                                 peer_ip |-> "0.0.0.0:3032",
                                 transaction |-> send_call.transaction])]
          /\ (connect_call.pc = "send" /\ connect_call' # connect_call) =>
                /\ peers_router.closed \/ ~MailboxFull(peers_router)
                /\ connect_call'.pc = "loop"
                /\ connect_call'.i = connect_call.i + 1
                /\ peers_router' =
                        IF peers_router.closed THEN peers_router
                        ELSE [peers_router EXCEPT !.queue = Append(@,
                                ConnectMessage(connect_call.res))]]_vars

\* connect is suspended at its second item on the full, open mailbox of the
\* peer registry.
C18_Witness ==
    /\ connect_call.pc = "send"
    /\ connect_call.i = 2
    /\ MailboxFull(peers_router)
    /\ ~peers_router.closed
    /\ ~ENABLED ConnectSend


\* The shares of a ledger one by one: the k-th share of a prover in a round.
ShareUnits(ledger) ==
    {<<r, p, k>> \in Rounds \X Provers \X (1 .. MaxShares) :
        r \in DOMAIN ledger /\ p \in DOMAIN ledger[r] /\ k <= ledger[r][p]}

\* C13: get_shares returns the number of shares in the ledger at the time of
\* the call, every round of every prover counted: 0 for the empty ledger,
\* and a prover credited in several rounds counted in each of them.
C13_GetSharesTotal ==
    [][(share_call' # share_call /\ share_call'.op = "get_shares") =>
            share_call'.result = Ok(Cardinality(ShareUnits(shares)))]_vars

\* get_shares has answered for a ledger in which one prover has shares in
\* two rounds and another prover in one.
C13_Witness ==
    /\ share_call # None
    /\ share_call.op = "get_shares"
    /\ DOMAIN shares = Rounds
    /\ "pa" \in DOMAIN shares["r1"]
    /\ "pa" \in DOMAIN shares["r2"]
    /\ "pb" \in DOMAIN shares["r2"]
    /\ share_call.result = Ok(Cardinality(ShareUnits(shares)))
    /\ share_call.result.value > Cardinality(DOMAIN shares["r1"]) + Cardinality(DOMAIN shares["r2"])

WellFormedAddress(value) == value.type = "string" /\ value.text \in Addresses

\* C14: get_share_for_prover on a well-formed address returns the number of
\* shares the ledger holds for that prover over all rounds at the time of
\* the call, which is 0, and no error, for a prover credited in no round.
C14_ShareForProver ==
    [][(share_call' # share_call /\ share_call'.op = "get_share_for_prover"
            /\ WellFormedAddress(share_call'.prover)) =>
            share_call'.result =
                Ok(Cardinality({u \in ShareUnits(shares) :
                                    u[2] = share_call'.prover.text}))]_vars

\* get_share_for_prover has answered 0 for a prover without a share while
\* the ledger holds shares of the other prover in both rounds.
C14_Witness ==
    /\ share_call # None
    /\ share_call.op = "get_share_for_prover"
    /\ share_call.prover = JsonString("pb")
    /\ share_call.result = Ok(0)
    /\ DOMAIN shares = Rounds
    /\ \A r \in Rounds : DOMAIN shares[r] = {"pa"}


\* C15: two calls of get_block_template on the same memory pool and the
\* same ledger, nothing having changed from the start of the first to the
\* end of the second, list the same transactions in the same order and come
\* to the same fee total, hence to the same outcome of the fee check and
\* the same coinbase reward.
C15_SameStateSameTemplate ==
    (tpl.pc = "done" /\ tpl_result # Err("AnyhowError")
        /\ tpl_prev # None /\ tpl_seen = Unchanged) =>
            /\ tpl.transactions = tpl_prev.transactions
            /\ tpl.transaction_fees = tpl_prev.transaction_fees
            /\ tpl_result.ok = tpl_prev.result.ok
            /\ tpl_result.ok =>
                    tpl_result.value.coinbase_reward = tpl_prev.result.value.coinbase_reward


\* The block of the chain a hash or a ledger root was taken from.
HeightOfHash(hash) == hash[2].height
HeightOfRoot(root) == root[2].height

\* C16: the reads of one call are not one atomic read.  A returned template
\* has the hash and the cumulative-weight base of the tip block read first,
\* the ledger root of the tip at a time not before that, and as height one
\* more than the tip's height at a time not before that either, none of
\* them past the present tip; the height is one more than the height of the
\* block named by previous_block_hash unless a block was accepted during
\* the call.
C16_ReadsNotJointlyAtomic ==
    TplReturnedTemplate =>
        LET template == tpl_result.value
            read == tpl.latest_block
        IN  /\ read = blocks[read.header.height + 1]
            /\ template.previous_block_hash = Hash(read)
            /\ template.cumulative_weight =
                    CumulativeWeight(read, template.difficulty_target)
            /\ template.ledger_root =
                    LedgerRootOf(blocks[HeightOfRoot(template.ledger_root) + 1])
            /\ HeightOfHash(template.previous_block_hash)
                    <= HeightOfRoot(template.ledger_root)
            /\ HeightOfRoot(template.ledger_root) <= template.block_height - 1
            /\ template.block_height - 1 <= LatestBlockHeight
            /\ template.block_height # HeightOfHash(template.previous_block_hash) + 1
                    => tpl_seen.ledger_changed

\* A template whose hash and weight base are of the older tip and whose
\* ledger root and height are of the newer one: block_height is two more
\* than the height of the block named by previous_block_hash.
C16_Witness ==
    /\ TplReturnedTemplate
    /\ tpl_result.value.block_height
            = HeightOfHash(tpl_result.value.previous_block_hash) + 2
    /\ HeightOfRoot(tpl_result.value.ledger_root) = tpl_result.value.block_height - 1
    /\ tpl_result.value.cumulative_weight =
            tpl.latest_block.cumulative_weight
                + (U64_MAX \div tpl_result.value.difficulty_target)
    /\ tpl.latest_block.cumulative_weight < LatestBlock.cumulative_weight


\* C20: a transaction of the memory pool is judged by itself and the
\* ledger: once the filter pass is over, the ledger unchanged during the
\* call, every transaction of the pool snapshot of which no serial number
\* and no commitment is recorded in the ledger is listed, whatever other
\* transactions the pool holds and whatever was listed before it, two
\* transactions that share an unrecorded serial number or commitment
\* included; and nothing is listed but transactions of the snapshot.
C20_JudgedAlone ==
    (tpl.pc \in {"fees", "done"} /\ ~tpl_seen.ledger_changed) =>
        /\ \A i \in DOMAIN tpl.pool :
                NotRecorded(tpl.pool[i]) =>
                    \E j \in DOMAIN tpl.transactions :
                        tpl.transactions[j] = TxToString(tpl.pool[i])
        /\ \A j \in DOMAIN tpl.transactions :
                \E i \in DOMAIN tpl.pool : tpl.transactions[j] = TxToString(tpl.pool[i])

\* A returned template lists both TA and TB, which spend the same serial
\* number, not recorded in the ledger.
C20_Witness ==
    /\ TplReturnedTemplate
    /\ ~tpl_seen.ledger_changed
    /\ tpl.pool = <<TA, TB>>
    /\ tpl_result.value.transactions = <<TxToString(TA), TxToString(TB)>>
    /\ Range(TA.serial_numbers) \cap Range(TB.serial_numbers) # {}
    /\ Range(TA.serial_numbers) \cap Range(TB.serial_numbers) \cap serial_numbers = {}


\* sub is what is left of seq when some of its items are taken out.
RECURSIVE IsSubsequence(_, _)
IsSubsequence(sub, seq) ==
    IF sub = <<>> THEN TRUE
    ELSE IF seq = <<>> THEN FALSE
    ELSE IF Head(sub) = Head(seq) THEN IsSubsequence(Tail(sub), Tail(seq))
    ELSE IsSubsequence(sub, Tail(seq))

PoolAsListed(pool) == [i \in DOMAIN pool |-> TxToString(pool[i])]

\* The read guard of get_block_template is out for the whole filter pass,
\* during which the memory pool is the one the pass started from and no
\* write to it takes effect; what the pass lists is a subsequence of it, in
\* its order.
HeldForThePass ==
    /\ [](/\ tpl.pc = "filter" => (pool_readers >= 1 /\ tpl.pool = memory_pool)
          /\ pool_query.pc = "reading" => pool_readers >= 1
          /\ tpl.pc \in {"filter", "fees", "done"} =>
                IsSubsequence(tpl.transactions, PoolAsListed(tpl.pool)))
    /\ [][tpl.pc = "filter" => memory_pool' = memory_pool]_vars

\* C19, as stated: beyond that, a reader is never kept from the lock while
\* readers hold it.
C19_ReadersNeverBlocked ==
    /\ HeldForThePass
    /\ [](/\ pool_query.pc = "idle" => ENABLED GetMemoryPool
          /\ tpl.pc = "read_pool" => ENABLED ReadMemoryPool)

\* C19: the read guard of get_block_template is out for the whole filter
\* pass: the transactions listed are a subsequence, in pool order, of the
\* one memory pool the pass started from, and no write takes effect during
\* the pass.  Readers share the lock: get_block_template and
\* get_memory_pool get their read guard whatever read guards are out,
\* unless a writer is queued for the lock, and then they wait.
C19_ReadersShareUnlessWriterQueued ==
    /\ HeldForThePass
    /\ [](/\ pool_query.pc = "idle" => ((ENABLED GetMemoryPool) <=> ~pool_waiting)
          /\ tpl.pc = "read_pool" => ((ENABLED ReadMemoryPool) <=> ~pool_waiting))

\* The filter pass is between two transactions while get_memory_pool holds
\* a read guard too, and the pass has left a transaction out.
C19_Witness ==
    /\ tpl.pc = "filter"
    /\ tpl.next = 2
    /\ Len(tpl.pool) = 2
    /\ tpl.transactions = <<>>
    /\ pool_query.pc = "reading"
    /\ pool_readers = 2
    /\ ~pool_waiting


\* A step of a query: of get_block_template, of get_memory_pool, of a range
\* query, of a query of the shares, or of a query that is a single read.
QueryStep ==
    \/ tpl'.pc # tpl.pc
    \/ tpl'.next # tpl.next
    \/ pool_query'.pc # pool_query.pc
    \/ query'.op # query.op
    \/ (range_call' = None) # (range_call = None)
    \/ (share_call' = None) # (share_call = None)

\* C12: no step of a query, whether the query succeeds or fails, changes
\* the ledger, the transactions of the memory pool, the share ledger, the
\* peers or a mailbox; of the memory pool's lock a query only takes and
\* drops a read guard, and it never takes the place of a writer.
C12_QueriesLeaveStateAlone ==
    [][QueryStep =>
            /\ UNCHANGED <<ledgerVars, memory_pool, shares, peers,
                           prover_router, peers_router, pool_waiting>>
            /\ pool_readers' \in {pool_readers - 1, pool_readers, pool_readers + 1}
            /\ pool_readers' # pool_readers =>
                    (tpl'.pc # tpl.pc \/ pool_query'.pc # pool_query.pc)]_vars

\* get_memory_pool has returned a memory pool of two transactions, which
\* are still in it, beside a ledger with blocks, shares and peers.
C12_Witness ==
    /\ pool_query.pc = "done"
    /\ Len(memory_pool) = 2
    /\ pool_query.result = Ok(memory_pool)
    /\ LatestBlockHeight >= 1
    /\ shares # <<>>
    /\ peers.connected # {}

\* A step of the filter closure over the transaction at tpl.next.
FilterStep ==
    /\ tpl.pc = "filter"
    /\ tpl.next <= Len(tpl.pool)
    /\ tpl'.next = tpl.next + 1

\* C21: a ledger lookup that fails while the filter checks a serial number
\* or a commitment counts as "not recorded": a pass of the filter leaves a
\* transaction out only when one of its serial numbers or commitments is
\* recorded in the ledger, so a lookup that answered with an error excludes
\* nothing; a transaction that passes is listed and its value balance added
\* to the fee total; and the pass goes on, the call holding no error.
C21_FailedLookupNotRecorded ==
    [][FilterStep =>
        LET transaction == tpl.pool[tpl.next]
        IN  /\ tpl'.pc = "filter"
            /\ tpl_result' = tpl_result
            /\ \/ /\ tpl'.transactions =
                        Append(tpl.transactions, TxToString(transaction))
                  /\ tpl'.transaction_fees =
                        tpl.transaction_fees + transaction.value_balance
               \/ /\ Recorded(transaction)
                  /\ tpl'.transactions = tpl.transactions
                  /\ tpl'.transaction_fees = tpl.transaction_fees]_vars

\* A template was returned, the ledger unchanged during the call, that lists
\* a transaction one of whose items the ledger records: the lookup of that
\* item failed, the transaction was listed and its value balance is in the
\* coinbase reward.
C21_Witness ==
    /\ TplReturnedTemplate
    /\ ~tpl_seen.ledger_changed
    /\ \E i \in DOMAIN tpl.pool :
            /\ Recorded(tpl.pool[i])
            /\ tpl_result.value.transactions = <<TxToString(tpl.pool[i])>>
            /\ tpl_result.value.coinbase_reward =
                    BlockReward(tpl_result.value.block_height)
                        + tpl.pool[i].value_balance

====
